---- MODULE Spec2Model ----
(***************************************************************************)
(* Face-attendance tools of "Task 1": the enrollment window                *)
(* (add_faces_gui.py, AddEmployeeApp) and the recognition window           *)
(* (recognize_faces_gui.py, RecognizeFaceApp).  Both work on the same      *)
(* store file employees.json.  Every button handler runs to completion on  *)
(* the Tk main loop, so one action is one whole handler run.               *)
(*                                                                         *)
(* Text (entry contents, ids, names) is a sequence of one-character        *)
(* strings, so that strip() and isdigit() are computed, not assumed.       *)
(* A face encoding is an integer, in tenths of the distance unit of the    *)
(* face_recognition library; the distance of two encodings is |a - b|.     *)
(***************************************************************************)
EXTENDS Integers, Sequences, FiniteSets, TLC

VARIABLES store, run

vars == <<store, run>>

\* Largest number of files picked in one "Upload Images" dialog.
MaxBatch == 2

\* Largest roster handed to the attendance report when it is checked alone.
MaxRoster == 2

\* compare_faces is called without a tolerance: the library default 0.6.
Tolerance == 6

----------------------------------------------------------------------------
(* Text helpers: str.strip() and str.isdigit()                             *)

Whitespace == {" "}

Digits == {"0", "1", "2", "3", "4", "5", "6", "7", "8", "9"}

RECURSIVE lstrip(_)
lstrip(s) ==
    IF s # <<>> /\ Head(s) \in Whitespace THEN lstrip(Tail(s)) ELSE s

RECURSIVE rstrip(_)
rstrip(s) ==
    IF s # <<>> /\ s[Len(s)] \in Whitespace
    THEN rstrip(SubSeq(s, 1, Len(s) - 1))
    ELSE s

strip(s) == rstrip(lstrip(s))

isdigit_always(s) == TRUE

isdigit(s) == s # <<>> /\ \A i \in 1..Len(s) : s[i] \in Digits

----------------------------------------------------------------------------
(* What the user can type and pick                                         *)

\* Image files on disk.  "" is the cancelled open-file dialog.
ImageFiles == {"corrupt.jpg", "noface.jpg", "f10.jpg", "f0_16.jpg"}

\* load_image_file followed by face_encodings: raises on an unreadable
\* file, otherwise the encodings of the faces found, in detection order.
FaceEncodings(file_path) ==
    CASE file_path = "corrupt.jpg" -> [raises |-> TRUE,  enc |-> <<>>]
      [] file_path = "noface.jpg"  -> [raises |-> FALSE, enc |-> <<>>]
      [] file_path = "f10.jpg"     -> [raises |-> FALSE, enc |-> <<10>>]
      [] OTHER                     -> [raises |-> FALSE, enc |-> <<0, 16>>]

\* Selections of askopenfilenames: tuples of 0..MaxBatch files.
Batches == UNION {[1..n -> ImageFiles] : n \in 0..MaxBatch}

\* Contents of the name and id entries, as <<name text, id text>>.
Entries ==
    {<<<<"A", " ">>, <<"1">>>>,
     <<<<"A", " ">>, <<" ", "2">>>>,
     <<<<>>, <<"1">>>>,
     <<<<"A", " ">>, <<" ">>>>,
     <<<<"A", " ">>, <<"1", "x">>>>}

\* Selections tried with every content of the entries.
ProbeBatches == {<<>>, <<"f10.jpg">>, <<"f0_16.jpg">>}

\* The entries that are tried with every selection.
FullEntries == {<<<<"A", " ">>, <<"1">>>>}

\* One click on "Upload Images": <<name text, id text, selected files>>.
Uploads ==
    {<<e[1], e[2], b>> : e \in FullEntries, b \in Batches} \cup
    {<<e[1], e[2], b>> : e \in Entries, b \in ProbeBatches}

----------------------------------------------------------------------------
(* The store file employees.json                                           *)

Absent == [kind |-> "absent", doc |-> <<>>]

\* A file json.load cannot parse: empty, a proper prefix of a document, or
\* a document followed by what is left of a longer one written before it.
Corrupt == [kind |-> "corrupt", doc |-> <<>>]

\* json.dump of the employee list.  Strings and floats survive the
\* dump/load round trip exactly, so the document is the list itself.
json_dump(employees) == [kind |-> "valid", doc |-> employees]

load_employees_empty(file) == <<>>

\* Both windows have the same load_employees: the parsed document when the
\* file exists and json.load succeeds, [] when the file does not exist and
\* [] from the except branch when opening or parsing raises.
load_employees(file) ==
    IF file.kind = "valid" THEN file.doc ELSE <<>>

SaveOutcomes == {"ok", "open_fails", "dump_fails"}

\* open(json_file, "w") truncates the file before json.dump writes to it.
save_employees(file, employees, outcome) ==
    CASE outcome = "ok" ->
            [store |-> json_dump(employees), messages |-> <<>>]
      [] outcome = "open_fails" ->
            [store |-> file,
             messages |-> << <<"showerror", "Failed to save employees">> >>]
      [] OTHER ->
            [store |-> Corrupt,
             messages |-> << <<"showerror", "Failed to save employees">> >>]

----------------------------------------------------------------------------
(* AddEmployeeApp.upload_images                                            *)

id_exists_never(employees, employee_id) == FALSE

\* any(emp["id"] == employee_id for emp in employees)
id_exists(employees, employee_id) ==
    \E i \in 1..Len(employees) : employees[i].id = employee_id

no_encodings_never(encodings) == FALSE

\* not encodings
no_encodings(encodings) == encodings = <<>>

NoBatch == [encodings |-> <<>>, messages |-> <<>>, io |-> <<>>]

RECURSIVE process_images_all(_, _)
process_images_all(file_paths, acc) ==
    IF file_paths = <<>> THEN acc
    ELSE LET file_path == Head(file_paths)
             r == FaceEncodings(file_path)
         IN  process_images_all(Tail(file_paths),
               [encodings |-> acc.encodings \o r.enc,
                messages |->
                    IF r.raises
                    THEN Append(acc.messages,
                                <<"showerror", "Failed to process", file_path>>)
                    ELSE IF Len(r.enc) > 0
                    THEN acc.messages
                    ELSE Append(acc.messages,
                                <<"showwarning", "No face detected in", file_path>>),
                io |-> Append(acc.io, "extract")])

\* The loop over file_paths: one extraction per file, appending the first
\* encoding found, a warning for a file without a face and an error for a
\* file that makes the extraction raise.
RECURSIVE process_images(_, _)
process_images(file_paths, acc) ==
    IF file_paths = <<>> THEN acc
    ELSE LET file_path == Head(file_paths)
             r == FaceEncodings(file_path)
         IN  process_images(Tail(file_paths),
               [encodings |->
                    IF ~r.raises /\ Len(r.enc) > 0
                    THEN Append(acc.encodings, r.enc[1])
                    ELSE acc.encodings,
                messages |->
                    IF r.raises
                    THEN Append(acc.messages,
                                <<"showerror", "Failed to process", file_path>>)
                    ELSE IF Len(r.enc) > 0
                    THEN acc.messages
                    ELSE Append(acc.messages,
                                <<"showwarning", "No face detected in", file_path>>),
                io |-> Append(acc.io, "extract")])

\* What one run of the handler did: the entry texts and the selection it
\* was given, its I/O in order, and the message boxes it showed in order.
Uploaded(name_text, id_text, file_paths, io, messages) ==
    [handler    |-> "upload_images",
     name_entry |-> name_text,
     id_entry   |-> id_text,
     file_paths |-> file_paths,
     io         |-> io,
     messages   |-> messages]

upload_images(name_text, id_text, file_paths) ==
    LET name        == strip(name_text)
        employee_id == strip(id_text)
        employees   == load_employees(store)
        batch       == process_images(file_paths, NoBatch)
        employee    == [id |-> employee_id, name |-> name,
                        encodings |-> batch.encodings]
        saved(outcome) ==
            save_employees(store, Append(employees, employee), outcome)
        Ran(io, messages) == Uploaded(name_text, id_text, file_paths, io, messages)
    IN
    IF file_paths = <<>> THEN
        /\ store' = store
        /\ run' = Ran(<<>>, <<>>)
    ELSE IF name = <<>> \/ employee_id = <<>> THEN
        /\ store' = store
        /\ run' = Ran(<<>>,
                      << <<"showerror", "Please enter both name and employee ID">> >>)
    ELSE IF ~isdigit(employee_id) THEN
        /\ store' = store
        /\ run' = Ran(<<>>, << <<"showerror", "Employee ID must be a number">> >>)
    ELSE IF id_exists(employees, employee_id) THEN
        /\ store' = store
        /\ run' = Ran(<<"read_store">>,
                      << <<"showerror", "Employee ID already exists">> >>)
    ELSE IF no_encodings(batch.encodings) THEN
        /\ store' = store
        /\ run' = Ran(<<"read_store">> \o batch.io,
                      batch.messages \o
                      << <<"showerror", "No valid faces detected in any image">> >>)
    ELSE \E outcome \in SaveOutcomes :
        /\ store' = saved(outcome).store
        /\ run' = Ran(<<"read_store">> \o batch.io \o <<"write_store">>,
                      batch.messages \o saved(outcome).messages \o
                      << <<"showinfo", "added", name, employee_id,
                           Len(batch.encodings)>> >>)

----------------------------------------------------------------------------
(* RecognizeFaceApp.recognize_image and generate_attendance_report         *)

\* Euclidean distance of two encodings.
face_distance(a, b) == IF a >= b THEN a - b ELSE b - a

\* face_recognition.compare_faces: one boolean per known encoding.
compare_faces(known_encodings, unknown_encoding) ==
    [i \in 1..Len(known_encodings) |->
        face_distance(known_encodings[i], unknown_encoding) <= Tolerance]

\* True in matches
true_in(matches) == \E i \in DOMAIN matches : matches[i]

\* The inner loop: every employee against one unknown encoding.
RECURSIVE match_employees(_, _, _)
match_employees(employees, unknown_encoding, recognized_ids) ==
    IF employees = <<>> THEN recognized_ids
    ELSE LET employee == Head(employees)
         IN  match_employees(Tail(employees), unknown_encoding,
               IF true_in(compare_faces(employee.encodings, unknown_encoding))
               THEN recognized_ids \cup {employee.id}
               ELSE recognized_ids)

match_unknown_first(unknown_encodings, employees, recognized_ids) ==
    IF unknown_encodings = <<>> THEN recognized_ids
    ELSE match_employees(employees, Head(unknown_encodings), recognized_ids)

\* The outer loop: every unknown encoding of the query image.
RECURSIVE match_unknown(_, _, _)
match_unknown(unknown_encodings, employees, recognized_ids) ==
    IF unknown_encodings = <<>> THEN recognized_ids
    ELSE match_unknown(Tail(unknown_encodings), employees,
            match_employees(employees, Head(unknown_encodings), recognized_ids))

\* present_data: the header row, then a row per employee whose id is in
\* recognized_ids.
RECURSIVE present_rows(_, _, _)
present_rows(employees, recognized_ids, present_data) ==
    IF employees = <<>> THEN present_data
    ELSE LET employee == Head(employees)
         IN  present_rows(Tail(employees), recognized_ids,
               IF employee.id \in recognized_ids
               THEN Append(present_data, <<employee.id, employee.name>>)
               ELSE present_data)

RECURSIVE absent_rows_all(_, _, _)
absent_rows_all(employees, recognized_ids, absent_data) ==
    IF employees = <<>> THEN absent_data
    ELSE absent_rows_all(Tail(employees), recognized_ids,
            Append(absent_data, <<Head(employees).id, Head(employees).name>>))

\* absent_data: the header row, then a row per employee whose id is not in
\* recognized_ids.
RECURSIVE absent_rows(_, _, _)
absent_rows(employees, recognized_ids, absent_data) ==
    IF employees = <<>> THEN absent_data
    ELSE LET employee == Head(employees)
         IN  absent_rows(Tail(employees), recognized_ids,
               IF employee.id \notin recognized_ids
               THEN Append(absent_data, <<employee.id, employee.name>>)
               ELSE absent_data)

HeaderRow == <<"ID", "Name">>

\* The two tables are built before doc.build, which may fail.
generate_attendance_report(employees, recognized_ids, pdf_ok) ==
    [present_data |-> present_rows(employees, recognized_ids, <<HeaderRow>>),
     absent_data  |-> absent_rows(employees, recognized_ids, <<HeaderRow>>),
     result_label |-> IF pdf_ok THEN "Attendance report saved"
                                ELSE "Error generating PDF"]

no_employees_never(employees) == FALSE

\* not employees
no_employees(employees) == employees = <<>>

Recognized(file_path, io, result_label, recognized_ids, present_data, absent_data) ==
    [handler        |-> "recognize_image",
     file_path      |-> file_path,
     io             |-> io,
     result_label   |-> result_label,
     recognized_ids |-> recognized_ids,
     present_data   |-> present_data,
     absent_data    |-> absent_data]

\* The label "Recognized: ..." set inside the matching loop is overwritten by
\* generate_attendance_report before the handler returns, so the label of a
\* finished run is the report's.  A cancelled dialog returns at once.
recognize_image(file_path, pdf_ok) ==
    LET employees == load_employees(store)
        r         == FaceEncodings(file_path)
        recognized_ids == match_unknown(r.enc, employees, {})
        report    == generate_attendance_report(employees, recognized_ids, pdf_ok)
    IN
    IF file_path = "" THEN
        UNCHANGED vars
    ELSE
        /\ store' = store
        /\ run' =
            IF no_employees(employees) THEN
                Recognized(file_path, <<"read_store">>,
                           "No employees registered", {}, <<>>, <<>>)
            ELSE IF r.raises THEN
                Recognized(file_path, <<"read_store", "extract">>,
                           "Error", {}, <<>>, <<>>)
            ELSE IF Len(r.enc) = 0 THEN
                Recognized(file_path, <<"read_store", "extract">>,
                           "No faces detected", {}, <<>>, <<>>)
            ELSE
                Recognized(file_path, <<"read_store", "extract", "write_pdf">>,
                           report.result_label, recognized_ids,
                           report.present_data, report.absent_data)

----------------------------------------------------------------------------
(* The two windows, used one handler at a time                             *)

Init ==
    /\ store = Absent
    /\ run = [handler |-> "none"]

Next ==
    \/ \E u \in Uploads : upload_images(u[1], u[2], u[3])
    \/ \E file_path \in ImageFiles \cup {""}, pdf_ok \in BOOLEAN :
            recognize_image(file_path, pdf_ok)

Spec == Init /\ [][Next]_vars

----------------------------------------------------------------------------
(* generate_attendance_report on its own, for any employee list and any   *)
(* set of recognized ids                                                   *)

ReportEmployees ==
    {[id |-> i, name |-> n, encodings |-> <<0>>] :
        i \in {<<"1">>, <<"2">>}, n \in {<<"A">>, <<"B">>}}

ReportRosters == UNION {[1..n -> ReportEmployees] : n \in 0..MaxRoster}

ReportIds == {<<"1">>, <<"2">>, <<"7">>}

InitReport ==
    /\ store = Absent
    /\ \E employees \in ReportRosters, recognized_ids \in SUBSET ReportIds :
          run = [handler |-> "report_inputs",
                 employees |-> employees,
                 recognized_ids |-> recognized_ids]

ApplyReport ==
    /\ run.handler = "report_inputs"
    /\ \E pdf_ok \in BOOLEAN :
          LET report == generate_attendance_report(run.employees,
                                                   run.recognized_ids, pdf_ok)
          IN  run' = [handler        |-> "generate_attendance_report",
                      employees      |-> run.employees,
                      recognized_ids |-> run.recognized_ids,
                      present_data   |-> report.present_data,
                      absent_data    |-> report.absent_data,
                      result_label   |-> report.result_label]
    /\ store' = store

NextReport == ApplyReport

SpecReport == InitReport /\ [][NextReport]_vars

----------------------------------------------------------------------------
(* Two enrollment windows (two AddEmployeeApp processes) on the same store *)
(* file.  Nothing locks the file, so the runs of upload_images interleave  *)
(* at its accesses to the file: the read in load_employees, the truncating *)
(* open and the write of json.dump in save_employees.  Here run holds one  *)
(* record per window: where its handler is, and its local variables.       *)

Windows == {1, 2}

ConcurrentBatches == ProbeBatches \cup {<<"noface.jpg">>}

IdleWindow ==
    [pc         |-> "idle",
     name_entry |-> <<>>,
     id_entry   |-> <<>>,
     file_paths |-> <<>>,
     loaded     |-> <<>>,
     employees  |-> <<>>,
     encodings  |-> <<>>,
     overlapped |-> FALSE,
     io         |-> <<>>,
     messages   |-> <<>>]

\* The windows that have the store open for writing, other than w, now
\* share the file with another writer.
MarkOverlap(w, runs) ==
    [v \in Windows |->
        IF v # w /\ runs[v].pc = "dump"
        THEN [runs[v] EXCEPT !.overlapped = TRUE]
        ELSE runs[v]]

SuccessMessage(r) ==
    <<"showinfo", "added", strip(r.name_entry), strip(r.id_entry),
      Len(r.encodings)>>

\* The click, the checks of the entries, load_employees and the duplicate
\* check.
ClickUpload(w, name_text, id_text, file_paths) ==
    LET name        == strip(name_text)
        employee_id == strip(id_text)
        employees   == load_employees(store)
        r == [IdleWindow EXCEPT !.name_entry = name_text,
                                !.id_entry = id_text,
                                !.file_paths = file_paths]
        Done(io, messages) ==
            [r EXCEPT !.pc = "done", !.io = io, !.messages = messages]
    IN
    /\ run[w].pc = "idle"
    /\ store' = store
    /\ run' = [run EXCEPT ![w] =
         IF file_paths = <<>> THEN Done(<<>>, <<>>)
         ELSE IF name = <<>> \/ employee_id = <<>> THEN
            Done(<<>>, << <<"showerror", "Please enter both name and employee ID">> >>)
         ELSE IF ~isdigit(employee_id) THEN
            Done(<<>>, << <<"showerror", "Employee ID must be a number">> >>)
         ELSE IF id_exists(employees, employee_id) THEN
            Done(<<"read_store">>,
                 << <<"showerror", "Employee ID already exists">> >>)
         ELSE [r EXCEPT !.pc = "extract", !.io = <<"read_store">>,
                        !.loaded = employees]]

\* The loop over the files, the check for no encodings, and the append of
\* the new employee to the list `employees`.
ExtractInto(w, employees) ==
    LET r     == run[w]
        batch == process_images(r.file_paths, NoBatch)
        employee == [id        |-> strip(r.id_entry),
                     name      |-> strip(r.name_entry),
                     encodings |-> batch.encodings]
    IN
    /\ r.pc = "extract"
    /\ store' = store
    /\ run' = [run EXCEPT ![w] =
         IF no_encodings(batch.encodings) THEN
            [r EXCEPT !.pc = "done",
                      !.io = r.io \o batch.io,
                      !.messages = batch.messages \o
                         << <<"showerror", "No valid faces detected in any image">> >>]
         ELSE
            [r EXCEPT !.pc = "save",
                      !.io = r.io \o batch.io,
                      !.messages = batch.messages,
                      !.encodings = batch.encodings,
                      !.employees = Append(employees, employee)]]

ExtractFaces_reload(w) == ExtractInto(w, load_employees(store))

\* The list appended to is the one loaded at the click.
ExtractFaces(w) == ExtractInto(w, run[w].loaded)

\* save_employees, first half: open(json_file, "w") creates or truncates
\* the file; when it raises, the error and then the success message follow.
OpenStore(w) ==
    LET r == run[w]
        failed == save_employees(store, r.employees, "open_fails")
    IN
    /\ r.pc = "save"
    /\ \/ /\ store' = Corrupt
          /\ run' = [MarkOverlap(w, run) EXCEPT ![w] =
                [r EXCEPT !.pc = "dump", !.overlapped = FALSE,
                          !.io = Append(r.io, "write_store")]]
       \/ /\ store' = failed.store
          /\ run' = [run EXCEPT ![w] =
                [r EXCEPT !.pc = "done",
                          !.io = Append(r.io, "write_store"),
                          !.messages = r.messages \o failed.messages \o
                                       <<SuccessMessage(r)>>]]

\* save_employees, second half: json.dump writes the list from the start
\* of the file, then the success message.  When another window has opened
\* or written the file since this one opened it, the file ends as this
\* list or as bytes that cannot be parsed.
DumpStore(w) ==
    LET r == run[w]
        Finished(saved) ==
            [MarkOverlap(w, run) EXCEPT ![w] =
                [r EXCEPT !.pc = "done",
                          !.messages = r.messages \o saved.messages \o
                                       <<SuccessMessage(r)>>]]
    IN
    /\ r.pc = "dump"
    /\ \/ /\ store' = save_employees(store, r.employees, "ok").store
          /\ run' = Finished(save_employees(store, r.employees, "ok"))
       \/ /\ r.overlapped
          /\ store' = Corrupt
          /\ run' = Finished(save_employees(store, r.employees, "ok"))
       \/ /\ store' = save_employees(store, r.employees, "dump_fails").store
          /\ run' = Finished(save_employees(store, r.employees, "dump_fails"))

InitConcurrent ==
    /\ store = Absent
    /\ run = [w \in Windows |-> IdleWindow]

NextConcurrent ==
    \/ \E w \in Windows, e \in Entries, b \in ConcurrentBatches :
          ClickUpload(w, e[1], e[2], b)
    \/ \E w \in Windows : ExtractFaces(w)
    \/ \E w \in Windows : OpenStore(w)
    \/ \E w \in Windows : DumpStore(w)

SpecConcurrent == InitConcurrent /\ [][NextConcurrent]_vars

----------------------------------------------------------------------------
(* Vocabulary of the properties                                            *)

PersistedRoster(file) == load_employees(file)

IdsOf(roster) == {roster[i].id : i \in 1..Len(roster)}

AllDigit(s) == Len(s) > 0 /\ {s[i] : i \in 1..Len(s)} \subseteq Digits

\* The j-th smallest element of a set of indices.
Nth(S, j) == CHOOSE i \in S : Cardinality({k \in S : k <= i}) = j

Shown(r, box, text) ==
    \E k \in 1..Len(r.messages) :
        r.messages[k][1] = box /\ r.messages[k][2] = text

IsUpload(r) == r.handler = "upload_images"

IsRecognition(r) == r.handler = "recognize_image"

\* The checks of upload_images that come before the first extraction, as
\* conditions on the handler's inputs and on the store file it starts from.
EmptyBatch(r) == r.file_paths = <<>>

EmptyEntry(r) == strip(r.name_entry) = <<>> \/ strip(r.id_entry) = <<>>

NonNumericId(r) == ~AllDigit(strip(r.id_entry))

DuplicateId(r, file) == strip(r.id_entry) \in IdsOf(PersistedRoster(file))

PassesValidation(r, file) ==
    /\ IsUpload(r)
    /\ ~EmptyBatch(r) /\ ~EmptyEntry(r) /\ ~NonNumericId(r)
    /\ ~DuplicateId(r, file)

----------------------------------------------------------------------------
\* C1: no two identities of the persisted roster share an id, and an upload
\* whose (valid, stripped) id is already in the roster it loads shows the
\* error "Employee ID already exists", shows no success, and leaves the
\* store file as it was.
DistinctIds ==
    \A i, j \in 1..Len(PersistedRoster(store)) :
        PersistedRoster(store)[i].id = PersistedRoster(store)[j].id => i = j

DuplicateRefused ==
    (/\ IsUpload(run')
     /\ ~EmptyBatch(run') /\ ~EmptyEntry(run') /\ ~NonNumericId(run')
     /\ DuplicateId(run', store))
    => /\ store' = store
       /\ Shown(run', "showerror", "Employee ID already exists")
       /\ ~Shown(run', "showinfo", "added")

C1_UniqueIds == [](DistinctIds) /\ [][DuplicateRefused]_vars

\* A duplicate id was refused while the roster holds two identities.
C1_Witness ==
    /\ IsUpload(run)
    /\ Shown(run, "showerror", "Employee ID already exists")
    /\ Len(PersistedRoster(store)) = 2

----------------------------------------------------------------------------
\* C2: the attendance report puts every employee in exactly one of its two
\* tables: the rows of present_data are the employees whose id is in
\* recognized_ids, the rows of absent_data are the others, each in roster
\* order, together as many as the roster; ids of recognized_ids that are not
\* in the roster add nothing; an empty roster gives two empty tables.
RowsAt(employees, S) ==
    [j \in 1..Cardinality(S) |->
        <<employees[Nth(S, j)].id, employees[Nth(S, j)].name>>]

C2_Partition ==
    run.handler = "generate_attendance_report" =>
        LET R == run.employees
            In  == {i \in 1..Len(R) : R[i].id \in run.recognized_ids}
            Out == (1..Len(R)) \ In
            present == Tail(run.present_data)
            absent  == Tail(run.absent_data)
        IN  /\ present = RowsAt(R, In)
            /\ absent = RowsAt(R, Out)
            /\ Len(present) + Len(absent) = Len(R)
            /\ (R = <<>> => present = <<>> /\ absent = <<>>)

\* A two-entry roster split into one present and one absent row, with a
\* recognized id that no employee has.
C2_Witness ==
    /\ run.handler = "generate_attendance_report"
    /\ Len(run.employees) = 2
    /\ Len(run.present_data) = 2
    /\ Len(run.absent_data) = 2
    /\ \E x \in run.recognized_ids : x \notin IdsOf(run.employees)

----------------------------------------------------------------------------
\* C3: when the roster is not empty and the query image has faces, the
\* recognized set is exactly the ids of the employees with at least one
\* stored encoding within the tolerance of at least one query encoding.
WithinTolerance(a, b) == a - b <= Tolerance /\ b - a <= Tolerance

MatchedIds(roster, query) ==
    {roster[i].id : i \in
        {k \in 1..Len(roster) :
            \E s \in 1..Len(roster[k].encodings), q \in 1..Len(query) :
                WithinTolerance(roster[k].encodings[s], query[q])}}

C3_RecognizedSet ==
    (/\ IsRecognition(run)
     /\ PersistedRoster(store) # <<>>
     /\ ~FaceEncodings(run.file_path).raises
     /\ FaceEncodings(run.file_path).enc # <<>>)
    => run.recognized_ids =
           MatchedIds(PersistedRoster(store), FaceEncodings(run.file_path).enc)

\* Two employees, a query face that matches the stored encoding of one and
\* not of the other: exactly one id is recognized.
C3_Witness ==
    /\ IsRecognition(run)
    /\ Len(PersistedRoster(store)) = 2
    /\ Len(FaceEncodings(run.file_path).enc) = 1
    /\ Cardinality(run.recognized_ids) = 1

----------------------------------------------------------------------------
\* C4: in an upload that passes validation every selected file is extracted
\* once; a file with faces contributes its first encoding only, a file
\* without a face gets a warning, a file whose extraction raises gets an
\* error, and the loop goes on to the next file.  If some file contributed,
\* the handler shows the success message with the number of contributions,
\* and the identity it saves has exactly the contributions, in upload order.
WithFace(file_paths) ==
    {i \in 1..Len(file_paths) :
        ~FaceEncodings(file_paths[i]).raises
        /\ Len(FaceEncodings(file_paths[i]).enc) >= 1}

Skipped(file_paths) == (1..Len(file_paths)) \ WithFace(file_paths)

Contributions(file_paths) ==
    [j \in 1..Cardinality(WithFace(file_paths)) |->
        FaceEncodings(file_paths[Nth(WithFace(file_paths), j)]).enc[1]]

PerImageReport(file_path) ==
    IF FaceEncodings(file_path).raises
    THEN <<"showerror", "Failed to process", file_path>>
    ELSE <<"showwarning", "No face detected in", file_path>>

PerImageReports(file_paths) ==
    [j \in 1..Cardinality(Skipped(file_paths)) |->
        PerImageReport(file_paths[Nth(Skipped(file_paths), j)])]

IsPerImage(m) == Len(m) = 3

IsExtract(e) == e = "extract"

SaveFailed(r) == Shown(r, "showerror", "Failed to save employees")

BatchProcessed(r, after) ==
    /\ Len(SelectSeq(r.io, IsExtract)) = Len(r.file_paths)
    /\ SelectSeq(r.messages, IsPerImage) = PerImageReports(r.file_paths)
    /\ WithFace(r.file_paths) # {} =>
        /\ r.messages[Len(r.messages)] =
               <<"showinfo", "added", strip(r.name_entry), strip(r.id_entry),
                 Cardinality(WithFace(r.file_paths))>>
        /\ ~SaveFailed(r) =>
               /\ after.kind = "valid"
               /\ after.doc[Len(after.doc)] =
                      [id        |-> strip(r.id_entry),
                       name      |-> strip(r.name_entry),
                       encodings |-> Contributions(r.file_paths)]

C4_FirstEncodingPerImage ==
    [][PassesValidation(run', store) => BatchProcessed(run', store')]_vars

\* A two-file upload, one file without a face and one with two faces: one
\* warning, one stored encoding (the first face), success with count 1.
C4_Witness ==
    /\ IsUpload(run)
    /\ run.file_paths = <<"noface.jpg", "f0_16.jpg">>
    /\ Shown(run, "showwarning", "No face detected in")
    /\ Shown(run, "showinfo", "added")
    /\ store.kind = "valid"
    /\ store.doc[Len(store.doc)].encodings = <<0>>

----------------------------------------------------------------------------
\* C5: an upload that passes validation and collects no encoding (every
\* file is faceless or fails extraction) ends with the error "No valid faces
\* detected in any image", shows no success, does not write the store, and
\* leaves the store file as it was.
C5_Step ==
    (PassesValidation(run', store) /\ WithFace(run'.file_paths) = {})
    => /\ store' = store
       /\ run'.messages[Len(run'.messages)] =
              <<"showerror", "No valid faces detected in any image">>
       /\ ~Shown(run', "showinfo", "added")
       /\ \A k \in 1..Len(run'.io) : run'.io[k] # "write_store"

C5_EmptyBatchRejected == [][C5_Step]_vars

\* A two-file upload without a usable face was rejected while the roster
\* already held an identity.
C5_Witness ==
    /\ IsUpload(run)
    /\ Len(run.file_paths) = 2
    /\ Shown(run, "showerror", "No valid faces detected in any image")
    /\ Len(PersistedRoster(store)) >= 1

----------------------------------------------------------------------------
\* C6: when the write of the store fails during an upload, load() afterwards
\* returns the roster that was persisted before the upload began.
C6_Step ==
    (IsUpload(run') /\ SaveFailed(run'))
    => PersistedRoster(store') = PersistedRoster(store)

C6_FailedSaveKeepsRoster == [][C6_Step]_vars

----------------------------------------------------------------------------
\* C7: an upload shows the success message only when the new identity has
\* been persisted: with the success message shown, no save failure was
\* shown and the last identity of the persisted roster is the new one.
C7_SuccessMeansPersisted ==
    (IsUpload(run) /\ Shown(run, "showinfo", "added"))
    => /\ ~SaveFailed(run)
       /\ PersistedRoster(store) # <<>>
       /\ PersistedRoster(store)[Len(PersistedRoster(store))].id
              = strip(run.id_entry)

----------------------------------------------------------------------------
\* C8 as stated: an upload with an empty id, an empty name, a non-numeric
\* id, an id already in the roster or an empty selection is rejected with
\* one error message, before any I/O, and changes nothing.
Rejectable(r, file) ==
    /\ IsUpload(r)
    /\ \/ EmptyBatch(r) \/ EmptyEntry(r) \/ NonNumericId(r)
       \/ DuplicateId(r, file)

OneError(r) == Len(r.messages) = 1 /\ r.messages[1][1] = "showerror"

C8_Original_Step ==
    Rejectable(run', store)
    => /\ store' = store
       /\ run'.io = <<>>
       /\ OneError(run')

C8_Original == [][C8_Original_Step]_vars

\* C8 (amended): such an upload changes nothing, extracts nothing and writes
\* nothing.  An empty selection ends the handler silently with no I/O; else
\* an empty name or id, and else a non-numeric id, is rejected with its own
\* error message and no I/O; else an id already in the roster is rejected
\* with its own error message after the one read of the store.
C8_Step ==
    Rejectable(run', store)
    => /\ store' = store
       /\ \A k \in 1..Len(run'.io) : run'.io[k] = "read_store"
       /\ IF EmptyBatch(run')
          THEN run'.io = <<>> /\ run'.messages = <<>>
          ELSE IF EmptyEntry(run')
          THEN /\ run'.io = <<>>
               /\ run'.messages =
                    << <<"showerror", "Please enter both name and employee ID">> >>
          ELSE IF NonNumericId(run')
          THEN /\ run'.io = <<>>
               /\ run'.messages =
                    << <<"showerror", "Employee ID must be a number">> >>
          ELSE /\ run'.io = <<"read_store">>
               /\ run'.messages =
                    << <<"showerror", "Employee ID already exists">> >>

C8_ValidationRejects == [][C8_Step]_vars

\* An id already in the roster was rejected after the read of the store
\* and nothing else, with a file selected.
C8_Witness ==
    /\ IsUpload(run)
    /\ run.file_paths # <<>>
    /\ run.io = <<"read_store">>
    /\ run.messages = << <<"showerror", "Employee ID already exists">> >>
    /\ strip(run.id_entry) \in IdsOf(PersistedRoster(store))

\* A non-numeric id was rejected, with a file selected and a roster present.
C8_NonNumericReached ==
    /\ IsUpload(run)
    /\ run.id_entry = <<"1", "x">>
    /\ run.file_paths # <<>>
    /\ Shown(run, "showerror", "Employee ID must be a number")
    /\ PersistedRoster(store) # <<>>

----------------------------------------------------------------------------
\* C9: a recognition run that loads an empty roster ends with "No employees
\* registered", an empty recognized set and no extraction, whatever the
\* query image is; a run with a non-empty roster and a readable query image
\* without a face ends with "No faces detected" and an empty recognized
\* set.  When both hold, the first outcome is the one reported.
C9_EmptyInputs ==
    IsRecognition(run) =>
        /\ PersistedRoster(store) = <<>> =>
              /\ run.result_label = "No employees registered"
              /\ run.recognized_ids = {}
              /\ run.io = <<"read_store">>
        /\ (/\ PersistedRoster(store) # <<>>
            /\ ~FaceEncodings(run.file_path).raises
            /\ FaceEncodings(run.file_path).enc = <<>>) =>
              /\ run.result_label = "No faces detected"
              /\ run.recognized_ids = {}

\* Both conditions at once: an unreadable store and a faceless query image.
C9_Witness ==
    /\ IsRecognition(run)
    /\ store.kind = "corrupt"
    /\ run.file_path = "noface.jpg"
    /\ run.result_label = "No employees registered"

\* The other outcome: two employees and a faceless query image.
C9_NoFacesReached ==
    /\ IsRecognition(run)
    /\ Len(PersistedRoster(store)) = 2
    /\ run.result_label = "No faces detected"

----------------------------------------------------------------------------
\* C10: every step leaves the persisted roster as it is or appends exactly
\* one identity at its end.
C10_Step ==
    \/ PersistedRoster(store') = PersistedRoster(store)
    \/ /\ Len(PersistedRoster(store')) = Len(PersistedRoster(store)) + 1
       /\ SubSeq(PersistedRoster(store'), 1, Len(PersistedRoster(store)))
              = PersistedRoster(store)

C10_AppendOnly == [][C10_Step]_vars

----------------------------------------------------------------------------
\* C11: load_employees returns the persisted roster when the store file
\* holds one and the empty roster when the file is missing or cannot be
\* parsed, and the handlers then go on as for an empty roster: recognition
\* reports "No employees registered" exactly when the file holds no roster;
\* an upload with valid entries is refused as a duplicate exactly when its
\* id is in the roster the file holds, reads the store first, shows no
\* message about the load, and on a successful save leaves the roster the
\* file held followed by the new identity.
StoredRoster(file) == IF file.kind = "valid" THEN file.doc ELSE <<>>

HandlerMessages ==
    {"Failed to process", "No face detected in", "Employee ID already exists",
     "No valid faces detected in any image", "Failed to save employees", "added"}

C11_Step ==
    /\ IsRecognition(run') =>
          (run'.result_label = "No employees registered"
             <=> StoredRoster(store) = <<>>)
    /\ (IsUpload(run') /\ ~EmptyBatch(run') /\ ~EmptyEntry(run')
                       /\ ~NonNumericId(run')) =>
          /\ run'.io[1] = "read_store"
          /\ Shown(run', "showerror", "Employee ID already exists")
                <=> strip(run'.id_entry) \in IdsOf(StoredRoster(store))
          /\ \A k \in 1..Len(run'.messages) :
                run'.messages[k][2] \in HandlerMessages
          /\ (Shown(run', "showinfo", "added") /\ ~SaveFailed(run')) =>
                /\ store'.kind = "valid"
                /\ Len(store'.doc) = Len(StoredRoster(store)) + 1
                /\ SubSeq(store'.doc, 1, Len(StoredRoster(store)))
                       = StoredRoster(store)

C11_LoadOrEmpty ==
    [](load_employees(store) = StoredRoster(store)) /\ [][C11_Step]_vars

\* A recognition run on a store file that cannot be parsed, with a face in
\* the query image: reported as no employees, after the read alone.
C11_Witness ==
    /\ IsRecognition(run)
    /\ store.kind = "corrupt"
    /\ run.file_path = "f10.jpg"
    /\ run.io = <<"read_store">>
    /\ run.result_label = "No employees registered"

----------------------------------------------------------------------------
\* C12: with two enrollment windows on the same store, a window that
\* finishes its write leaves in the file the roster it loaded at its click
\* followed by its own identity, whatever the other window saved in between
\* (last writer wins).  The witness is the interleaving of the claim: both
\* windows report success, no save failed, the two writes did not overlap,
\* the ids differ, and the persisted roster holds only the identity of the
\* window that saved last.
OwnIdentity(r) ==
    [id        |-> strip(r.id_entry),
     name      |-> strip(r.name_entry),
     encodings |-> Contributions(r.file_paths)]

C12_Step ==
    \A w \in Windows :
        (run[w].pc = "dump" /\ run'[w].pc = "done" /\ store'.kind = "valid")
        => store'.doc = Append(run[w].loaded, OwnIdentity(run[w]))

C12_LastWriterWins == [][C12_Step]_vars

C12_Witness ==
    \E a, b \in Windows :
        /\ run[a].pc = "done" /\ run[b].pc = "done"
        /\ Shown(run[a], "showinfo", "added") /\ ~SaveFailed(run[a])
        /\ Shown(run[b], "showinfo", "added") /\ ~SaveFailed(run[b])
        /\ strip(run[a].id_entry) # strip(run[b].id_entry)
        /\ ~run[a].overlapped /\ ~run[b].overlapped
        /\ store.kind = "valid"
        /\ store.doc = <<OwnIdentity(run[b])>>

====
